---- MODULE Spec2Model ----
(***************************************************************************)
(* Model of the Bitcoin/Nostr relay server (src/src/relay/server.rs):      *)
(* the mempool Monitor, the bus Uplink with its remote-transaction         *)
(* handler, the per-client WebSocket legs and the submit handler, together *)
(* with the Bitcoin node and the validator they call, and of the library   *)
(* facade BitcoinNostrRelay (src/src/lib.rs).                              *)
(*                                                                         *)
(* One action is one step of a task between two suspension points (an RPC, *)
(* a lock acquisition, a socket or channel operation).  The results of the *)
(* node, of the bus socket and of the client sockets are chosen            *)
(* nondeterministically.                                                   *)
(***************************************************************************)
EXTENDS Integers, Sequences, FiniteSets, TLC

(***************************************************************************)
(* Bounds of the model.                                                    *)
(***************************************************************************)
MaxTx == 2          \* distinct transactions
MaxClients == 2     \* distinct peer addresses
MaxArrivals == 2    \* transactions entering the mempool from outside the relay
MaxBusIn == 1       \* text frames delivered by the bus
MaxFrames == 2      \* WebSocket messages read from clients
MaxConnects == 2    \* accepted client connections
BufferSize == 1     \* config.websocket_buffer_size, where not said otherwise
CacheSize == 1      \* validator cache capacity of the model
MaxSends == 2       \* send_tx_event calls of the library facade
MaxClientConnections == 1 \* config.max_client_connections of the model
MaxTime == 2        \* seconds the wall clock advances

(***************************************************************************)
(* Program constants.                                                      *)
(***************************************************************************)
KIND_SUBMIT_TX == 20010
KIND_TX_RESPONSE == 20011
KIND_TX_BROADCAST == 20012
KIND_REQUEST_TX == 20013

RelayId == "1"      \* config.relay_id of this relay
OtherRelayId == "2" \* the relay_id of a peer relay on the same bus

(***************************************************************************)
(* Transactions, their txids and their hex serialisations.  Transaction i  *)
(* has txid TxidTable[i] and raw hex HexTable[i].                          *)
(***************************************************************************)
TxidTable == <<"ta", "tb", "tc", "td">>
HexTable == <<"0200aa", "0200bb", "0200cc", "0200dd">>
Absent == "<absent>"        \* a JSON field that is missing or not a string
NotHex == "not_hex"         \* a string hex::decode rejects
ShortHex == "aa"            \* valid hex, fewer than 60 bytes
GarbageHex == "ffff"        \* valid hex, at least 60 bytes, not a transaction
Blank == "  "               \* a string of whitespace only

TxIndex == 1..MaxTx
TxIds == {TxidTable[i] : i \in TxIndex}
TxHexes == {HexTable[i] : i \in TxIndex}
RawHex(txid) == HexTable[CHOOSE i \in TxIndex : TxidTable[i] = txid]

\* hex::decode
HexDecodes(hex) == hex \notin {NotHex, Absent, Blank}
\* bitcoin::consensus::deserialize::<Transaction> of the decoded bytes
Deserializes(hex) == hex \in TxHexes
\* tx.txid().to_string()
ComputeTxid(hex) == TxidTable[CHOOSE i \in TxIndex : HexTable[i] = hex]

Range(s) == {s[i] : i \in 1..Len(s)}

RECURSIVE Perms(_)
Perms(S) ==
  IF S = {} THEN {<<>>}
  ELSE UNION {{<<x>> \o p : p \in Perms(S \ {x})} : x \in S}

(***************************************************************************)
(* Events.  A tag is a nostr::Tag: the Hashtag variant or the Generic      *)
(* variant with a kind and values.  The content is the JSON the event      *)
(* carries: the TX_BROADCAST object (txid, hex) or the TX_RESPONSE object  *)
(* (success, message, txid); json = FALSE is content that is not JSON.     *)
(***************************************************************************)
HashtagTag(v) == [variant |-> "Hashtag", kind |-> "t", values |-> <<v>>]
GenericTag(k, vs) == [variant |-> "Generic", kind |-> k, values |-> vs]

Content(json, txid, hex, success, message) ==
  [json |-> json, txid |-> txid, hex |-> hex, success |-> success,
   message |-> message]

MkEvent(kind, tags, content) ==
  [kind |-> kind, tags |-> tags, content |-> content]

NoEvent == MkEvent(0, <<>>, Content(FALSE, Absent, Absent, FALSE, ""))

VARIABLES
  mempool,             \* txids in the local node's mempool
  arrivals,            \* number of outside arrivals so far
  remote_transactions, \* RelayServer.remote_transactions
  known_txids,         \* monitor_mempool: known_txids
  current_txids,       \* monitor_mempool: current_txids of the running poll
  mon_pc,              \* position of the Monitor task
  mon_i,               \* index in current_txids of the txid being processed
  mon_event,           \* the event broadcast_transaction built, during fan-out
  mon_seen,            \* history: txids a poll met while in remote_transactions
  mon_rpc,             \* history: how get_mempool_txids ended in this period
  mon_seeded,          \* history: seeded txids that have stayed in the mempool
  mon_cold,            \* history: the seed failed and no poll has completed
  outbox,              \* events in the strfry_sender/strfry_receiver channel
  enqueued,            \* history: every event sent on strfry_sender, in order
  bus_written,         \* history: every event written to a bus socket, in order
  up_pc,               \* position of the Uplink task
  up_event,            \* the event handle_remote_transaction is working on
  up_calls,            \* history: node calls made for up_event
  up_result,           \* history: what validate returned for up_event
  up_ret,              \* history: what handle_strfry_message returned last
  up_remote0,          \* history: remote_transactions when up_event arrived
  up_since,            \* try_connect_to_strfry: current_timestamp
  up_wire,             \* history: frames sent on the open bus connection
  bus_in,              \* number of frames the bus has delivered
  vcfg,                \* config.validation_config
  buffer_size,         \* config.websocket_buffer_size
  now,                 \* the wall clock, in seconds
  cache,               \* validator negative cache, oldest first
  clients,             \* keys of RelayServer.clients
  chan,                \* per client: the broadcast channel of its entry
  out_alive,           \* per client: the outbound (writer) task is running
  in_pc,               \* per client: position of the inbound leg
  cl_hex,              \* per client: tx_hex of the submission being handled
  cl_reply,            \* per client: the reply handle_submit_tx will send
  cl_val,              \* history: what validate returned for the submission
  cl_node,             \* history: what sendrawtransaction returned for it
  cl_submits,          \* history: SUBMIT_TX events read on the connection
  cl_replies,          \* history: send_tx_response calls on the connection
  cl_bad,              \* history: text frames whose handling raised an error
  frames,              \* number of client messages read so far
  connects,            \* number of accepted connections so far
  nostr_client,        \* BitcoinNostrRelay.nostr_client: "None" or "Some"
  lib_phase,           \* history: the last of new, connect_nostr, start
  lib_result,          \* history: what the last broadcast_transaction returned
  lib_sends,           \* history: number of send_tx_event calls
  val_input,           \* history: the argument of the last validate_transaction
  val_result,          \* history: what it returned
  val_probed,          \* history: whether it called the node
  val_cache0           \* history: the cache when it was called

nodeVars == <<mempool, arrivals>>
monVars == <<known_txids, current_txids, mon_pc, mon_i, mon_event, mon_seen,
             mon_rpc, mon_seeded, mon_cold>>
upVars == <<up_pc, up_event, up_calls, up_result, up_ret, up_remote0, bus_in,
           bus_written, up_since, up_wire>>
clVars == <<clients, out_alive, in_pc, cl_hex, cl_reply, cl_val, cl_node,
            cl_submits, cl_bad, cl_replies, frames, connects>>
libVars == <<nostr_client, lib_phase, lib_result, lib_sends, val_input,
             val_result, val_probed, val_cache0>>
conf == <<vcfg, buffer_size>>
env == <<conf, now>>
vars == <<nodeVars, monVars, upVars, clVars, libVars, remote_transactions,
          outbox, enqueued, env, cache, chan>>

Clients == 1..MaxClients

(***************************************************************************)
(* The Bitcoin node.  Transactions enter the mempool from the Bitcoin      *)
(* network or a wallet and leave it when confirmed or evicted.             *)
(***************************************************************************)
NodeArrive(txid) ==
  /\ txid \notin mempool
  /\ arrivals < MaxArrivals
  /\ mempool' = mempool \cup {txid}
  /\ arrivals' = arrivals + 1
  /\ UNCHANGED <<monVars, upVars, clVars, remote_transactions, outbox,
                 enqueued, env, libVars, cache, chan>>

NodeDrop(txid) ==
  /\ txid \in mempool
  /\ mempool' = mempool \ {txid}
  /\ mon_seeded' = mon_seeded \ {txid}
  /\ UNCHANGED <<arrivals, known_txids, current_txids, mon_pc, mon_i,
                 mon_event, mon_seen, mon_rpc, mon_cold, upVars, clVars,
                 remote_transactions, outbox, enqueued, env, libVars, cache,
                 chan>>

\* The results submit_to_bitcoin_node can return for tx_hex: Ok, the node's
\* "already in mempool" error, or another error (rejection, transport).
SubmitResults(tx_hex) ==
  IF ~Deserializes(tx_hex) THEN {"error"}
  ELSE IF ComputeTxid(tx_hex) \in mempool THEN {"already", "error"}
  ELSE {"ok", "error"}

MempoolAfterSubmit(tx_hex, result) ==
  IF result = "ok" THEN mempool \cup {ComputeTxid(tx_hex)} ELSE mempool

\* The answers of testmempoolaccept for a transaction that parses.
ProbeResults(tx_hex) ==
  IF ComputeTxid(tx_hex) \in mempool THEN {"rejected", "timeout"}
  ELSE {"allowed", "rejected", "timeout"}

(***************************************************************************)
(* The validator: validate(hex) with the structural precheck, the negative *)
(* cache and the live probe.  A cache entry is fresh while its age is      *)
(* below cache_ttl.                                                        *)
(***************************************************************************)
ValidationConfig(validation, precheck, probe) ==
  [enable_validation |-> validation, enable_precheck |-> precheck,
   enable_probe |-> probe]

DefaultValidationConfig == ValidationConfig(TRUE, TRUE, TRUE)

ValidationConfigs ==
  {ValidationConfig(v, p, b) : v \in BOOLEAN, p \in BOOLEAN, b \in BOOLEAN}

Precheck(hex) ==
  IF hex \in {"", Blank} THEN "EmptyTransaction"
  ELSE IF ~HexDecodes(hex) THEN "InvalidHex"
  ELSE IF hex = ShortHex THEN "InvalidSize"
  ELSE IF ~Deserializes(hex) THEN "InvalidStructure"
  ELSE "Ok"

CacheFresh(txid) ==
  \E i \in 1..Len(cache) : cache[i].txid = txid /\ cache[i].fresh

CacheInsert(txid) ==
  LET kept == SelectSeq(cache, LAMBDA e : e.txid # txid)
      added == Append(kept, [txid |-> txid, fresh |-> TRUE])
  IN  IF Len(added) > CacheSize THEN Tail(added) ELSE added

\* Does validate(hex) reach the live probe?
ValidateProbes(hex) ==
  /\ vcfg.enable_validation
  /\ vcfg.enable_probe
  /\ Deserializes(hex)
  /\ ~CacheFresh(ComputeTxid(hex))

\* The result of validate(hex) when the probe, if reached, answers `probe`.
ValidateResult(hex, probe) ==
  IF ~vcfg.enable_validation THEN "Ok"
  ELSE IF vcfg.enable_precheck /\ Precheck(hex) # "Ok" THEN Precheck(hex)
  ELSE IF ~Deserializes(hex) THEN "InvalidStructure"
  ELSE IF CacheFresh(ComputeTxid(hex)) THEN "RecentlyProcessed"
  ELSE IF ~vcfg.enable_probe THEN "Ok"
  ELSE IF probe = "rejected" THEN "BitcoinCoreRejection"
  ELSE IF probe = "timeout" THEN "Timeout"
  ELSE "Ok"

\* CacheAfterValidate as it would be if a probe that timed out were cached
\* like a rejection.
CacheAfterValidateOnTimeout(hex, probe) ==
  IF ValidateResult(hex, probe) \in {"BitcoinCoreRejection", "Timeout"}
  THEN CacheInsert(ComputeTxid(hex))
  ELSE cache

\* validate: the cache when validate(hex) returns.
CacheAfterValidate(hex, probe) ==
  IF ValidateResult(hex, probe) = "BitcoinCoreRejection"
  THEN CacheInsert(ComputeTxid(hex))
  ELSE cache

\* The probe answers validate(hex) can meet.
ProbeChoices(hex) ==
  IF ValidateProbes(hex) THEN ProbeResults(hex) ELSE {"none"}

\* Time passes: the oldest fresh entry reaches cache_ttl.
CacheExpire ==
  /\ \E i \in 1..Len(cache) : cache[i].fresh
  /\ cache' = [i \in 1..Len(cache) |->
                 [txid |-> cache[i].txid, fresh |-> FALSE]]
  /\ UNCHANGED <<nodeVars, monVars, upVars, clVars, remote_transactions,
                 outbox, enqueued, env, libVars, chan>>

(***************************************************************************)
(* Per-client broadcast channel (tokio broadcast, capacity                 *)
(* websocket_buffer_size): a send fails when the receiver is gone; when    *)
(* the buffer is full the oldest event is overwritten and the receiver's   *)
(* next recv reports Lagged.  ids and depth are history: ids holds, for     *)
(* each queued event, the number of events sent on the channel after the   *)
(* one the receiver got last, up to and including it; depth is the largest *)
(* number of events that were queued behind an event when recv returned    *)
(* it.                                                                     *)
(***************************************************************************)
NewChannel ==
  [q |-> <<>>, ids |-> <<>>, depth |-> 0, lagged |-> FALSE, open |-> TRUE]
ClosedChannel ==
  [q |-> <<>>, ids |-> <<>>, depth |-> 0, lagged |-> FALSE, open |-> FALSE]

NextId(ids) == IF ids = <<>> THEN 1 ELSE ids[Len(ids)] + 1

ChanSend(ch, event) ==
  IF ~ch.open THEN ch
  ELSE IF Len(ch.q) >= buffer_size
       THEN [ch EXCEPT !.q = Append(Tail(ch.q), event),
                       !.ids = Append(Tail(ch.ids), NextId(ch.ids)),
                       !.lagged = TRUE]
       ELSE [ch EXCEPT !.q = Append(ch.q, event),
                       !.ids = Append(ch.ids, NextId(ch.ids))]

\* Received as it would be if recv returned the newest queued event.
ReceivedNewest(q) == Len(q)

\* tx_receiver.recv(): the position in the queue of the event it returns,
\* the oldest one.
Received(q) == 1

\* The queue without the event at position k.
Without(q, k) == SubSeq(q, 1, k - 1) \o SubSeq(q, k + 1, Len(q))

\* The channel after recv has returned the event at position k.
ChanRecv(ch, k) ==
  [ch EXCEPT !.q = Without(ch.q, k),
             !.ids = [i \in 1..(Len(ch.ids) - 1) |->
                        Without(ch.ids, k)[i] - ch.ids[k]],
             !.depth = IF Len(ch.q) - 1 > @ THEN Len(ch.q) - 1 ELSE @]

(***************************************************************************)
(* The Monitor task: monitor_mempool.                                      *)
(***************************************************************************)
\* RemoteWriteLocked as it would be if the handler kept the write guard
\* after it had returned.
RemoteWriteLockedKept ==
  up_pc \in {"validate", "submit"} \/ remote_transactions # {}

\* The write guard of remote_transactions is held by handle_remote_transaction
\* from its insert until it returns.
RemoteWriteLocked == up_pc \in {"validate", "submit"}

\* broadcast_transaction: the TX_BROADCAST event for (tx, txid).
BroadcastEvent(txid, hex) ==
  MkEvent(KIND_TX_BROADCAST,
          <<HashtagTag("bitcoin"), HashtagTag("transaction"),
            GenericTag("relay_id", <<RelayId>>)>>,
          Content(TRUE, txid, hex, FALSE, ""))

\* Retain as it would be if known_txids were never pruned.
RetainAll(known, list) == known

\* monitor_mempool: known_txids.retain(|txid| current_txids.contains(txid)).
Retain(known, list) == known \cap Range(list)

\* KnownAfterFailedPoll as it would be if a failed poll cleared the state.
KnownAfterFailedPollCleared == {}

\* monitor_mempool: known_txids after the Err arm of a poll, which only logs.
KnownAfterFailedPoll == known_txids

\* The first get_mempool_txids call: seed known_txids, or start empty.
MonitorSeed ==
  /\ mon_pc = "seed"
  /\ \/ /\ known_txids' = mempool
        /\ mon_rpc' = "ok"
        /\ mon_cold' = FALSE
     \/ /\ known_txids' = {}
        /\ mon_rpc' = "err"
        /\ mon_cold' = TRUE
  /\ mon_seeded' = known_txids'
  /\ mon_pc' = "poll"
  /\ UNCHANGED <<current_txids, mon_i, mon_event, mon_seen, nodeVars, upVars,
                 clVars, remote_transactions, outbox, enqueued, env, libVars,
                 cache, chan>>

\* get_mempool_txids of a poll: the list, or an error that skips the period.
MonitorPoll ==
  /\ mon_pc = "poll"
  /\ \/ /\ \E list \in Perms(mempool) :
             IF list = <<>>
             THEN /\ known_txids' = Retain(known_txids, list)
                  /\ mon_pc' = "sleep"
                  /\ mon_cold' = FALSE
                  /\ UNCHANGED <<current_txids, mon_i>>
             ELSE /\ current_txids' = list
                  /\ mon_i' = 1
                  /\ mon_pc' = "examine"
                  /\ UNCHANGED <<known_txids, mon_cold>>
        /\ mon_rpc' = "ok"
     \/ /\ mon_pc' = "sleep"
        /\ mon_rpc' = "err"
        /\ known_txids' = KnownAfterFailedPoll
        /\ UNCHANGED <<current_txids, mon_i, mon_cold>>
  /\ UNCHANGED <<mon_event, mon_seen, mon_seeded, nodeVars, upVars, clVars,
                 remote_transactions, outbox, enqueued, env, libVars, cache,
                 chan>>

\* The end of one iteration of `for txid in &current_txids`, with known_txids
\* as the iteration leaves it; after the last txid, the retain and the sleep.
MonitorAdvance(known) ==
  IF mon_i = Len(current_txids)
  THEN /\ known_txids' = Retain(known, current_txids)
       /\ current_txids' = <<>>
       /\ mon_i' = 0
       /\ mon_pc' = "sleep"
       /\ mon_cold' = FALSE
  ELSE /\ known_txids' = known
       /\ mon_i' = mon_i + 1
       /\ mon_pc' = "examine"
       /\ UNCHANGED <<current_txids, mon_cold>>

\* IsRemote as it would be if the Monitor compared against the wrong set.
IsRemoteKnown(txid) == txid \in known_txids

\* monitor_mempool: is_remote, the read of remote_transactions.
IsRemote(txid) == txid \in remote_transactions

\* RemoteAfterExamine as it would be if the Monitor took the txid out of
\* remote_transactions once it had surfaced in the mempool.
RemoteAfterExamineConsumed(txid) == remote_transactions \ {txid}

\* monitor_mempool: remote_transactions after the read guard is dropped; the
\* Monitor only reads the set.
RemoteAfterExamine(txid) == remote_transactions

\* One txid of the list: skip it when known; otherwise read remote_transactions
\* and either skip the publication or go on to fetch the raw transaction.
MonitorExamine ==
  /\ mon_pc = "examine"
  /\ LET txid == current_txids[mon_i] IN
       /\ IF txid \in known_txids THEN MonitorAdvance(known_txids)
          ELSE /\ ~RemoteWriteLocked
               /\ IF IsRemote(txid)
                  THEN MonitorAdvance(known_txids \cup {txid})
                  ELSE /\ mon_pc' = "fetch"
                       /\ UNCHANGED <<known_txids, current_txids, mon_i,
                                      mon_cold>>
       /\ mon_seen' = IF txid \in remote_transactions
                      THEN mon_seen \cup {txid} ELSE mon_seen
       /\ remote_transactions' = RemoteAfterExamine(txid)
  /\ UNCHANGED <<mon_event, mon_rpc, mon_seeded, nodeVars, upVars, clVars,
                 outbox, enqueued, env, libVars, cache, chan>>

\* What a failed step of the publication does to the loop: the `?` on
\* hex::decode leaves monitor_mempool, every other failure is skipped.
MonitorOnFailure(failure) ==
  IF failure = "nothex" THEN "exit" ELSE "continue"

\* The ways the publication of a txid can fail: get_raw_transaction returns
\* an error, its result is not hex, the bytes are not a transaction, or
\* broadcast_transaction returns an error.
FetchFailures == {"rpc", "nothex", "deserialize", "sign"}

\* KnownAfterFailedFetch as it would be if a txid whose publication failed
\* were left for the next poll.
KnownAfterFailedFetchRetried(known, txid) == known

\* monitor_mempool: known_txids.insert(txid) after a publication that
\* failed without leaving the function.
KnownAfterFailedFetch(known, txid) == known \cup {txid}

\* get_raw_transaction returned: decode, deserialize, build the event and
\* send it on the outbox; `failures` are the failures that can occur.
MonitorFetchOf(failures) ==
  /\ mon_pc = "fetch"
  /\ LET txid == current_txids[mon_i] IN
     \/ \E failure \in failures :
          /\ IF MonitorOnFailure(failure) = "exit"
             THEN /\ mon_pc' = "exited"
                  /\ UNCHANGED <<known_txids, current_txids, mon_i,
                                 mon_cold>>
             ELSE MonitorAdvance(KnownAfterFailedFetch(known_txids, txid))
          /\ UNCHANGED <<mon_event, outbox, enqueued>>
     \/ /\ mon_event' = BroadcastEvent(txid, RawHex(txid))
        /\ outbox' = Append(outbox, mon_event')
        /\ enqueued' = Append(enqueued, mon_event')
        /\ mon_pc' = "fanout"
        /\ UNCHANGED <<known_txids, current_txids, mon_i, mon_cold>>
  /\ UNCHANGED <<mon_seen, mon_rpc, mon_seeded, nodeVars, upVars, clVars,
                 remote_transactions, env, libVars, cache, chan>>

MonitorFetch == MonitorFetchOf(FetchFailures)

\* BroadcastTargets as it would be if the fan-out stopped after one client.
BroadcastTargetsOne ==
  IF clients = {} THEN {} ELSE {CHOOSE c \in clients : TRUE}

\* broadcast_transaction: the clients whose sender gets the event, every
\* value of the clients map.
BroadcastTargets == clients

\* broadcast_transaction, after the clients read lock: send to every client.
MonitorFanout ==
  /\ mon_pc = "fanout"
  /\ chan' = [c \in Clients |->
                IF c \in BroadcastTargets THEN ChanSend(chan[c], mon_event)
                ELSE chan[c]]
  /\ mon_event' = NoEvent
  /\ MonitorAdvance(known_txids \cup {current_txids[mon_i]})
  /\ UNCHANGED <<mon_seen, mon_rpc, mon_seeded, nodeVars, upVars, clVars,
                 remote_transactions, outbox, enqueued, env, libVars, cache>>

\* tokio::time::sleep(mempool_poll_interval) returns.
MonitorWake ==
  /\ mon_pc = "sleep"
  /\ mon_pc' = "poll"
  /\ mon_rpc' = "none"
  /\ UNCHANGED <<known_txids, current_txids, mon_i, mon_event, mon_seen,
                 mon_seeded, mon_cold, nodeVars, upVars, clVars,
                 remote_transactions, outbox, enqueued, env, libVars, cache,
                 chan>>

(***************************************************************************)
(* The Uplink task: connect_to_strfry, try_connect_to_strfry,              *)
(* handle_strfry_message and handle_remote_transaction.                    *)
(***************************************************************************)
\* The frames the bus can deliver.  `parses` is whether the text is JSON,
\* `len` the length of the array, `head` its first element, `valid` whether
\* the third element deserializes as an event.
BusFrame(parses, head, len, valid, event) ==
  [parses |-> parses, head |-> head, len |-> len, valid |-> valid,
   event |-> event]

BusTagLists ==
  { <<>>,
    <<GenericTag("relay_id", <<RelayId>>)>>,
    <<HashtagTag("bitcoin"), HashtagTag("transaction"),
      GenericTag("relay_id", <<OtherRelayId>>)>>,
    <<HashtagTag("bitcoin"), GenericTag("relay_id", <<OtherRelayId>>),
      GenericTag("relay_id", <<RelayId>>)>>,
    <<GenericTag("relay_id", <<>>),
      GenericTag("relay_id", <<OtherRelayId, RelayId>>)>> }

\* What a peer relay's broadcast_transaction publishes for transaction i.
PeerContent(i) == Content(TRUE, TxidTable[i], HexTable[i], FALSE, "")

BusContents ==
  { Content(FALSE, Absent, Absent, FALSE, ""),
    Content(TRUE, TxidTable[1], Absent, FALSE, ""),
    Content(TRUE, Absent, HexTable[1], FALSE, ""),
    Content(TRUE, TxidTable[1], NotHex, FALSE, ""),
    Content(TRUE, TxidTable[1], HexTable[MaxTx], FALSE, "") }
  \cup {PeerContent(i) : i \in TxIndex}

\* Every tag list with a peer's content, every content from a peer, and
\* every content under this relay's own tag.
BusEvents ==
  {MkEvent(KIND_TX_BROADCAST, tags, PeerContent(1)) : tags \in BusTagLists}
  \cup {MkEvent(KIND_TX_BROADCAST,
                <<HashtagTag("bitcoin"), HashtagTag("transaction"),
                  GenericTag("relay_id", <<id>>)>>, content) :
          id \in {RelayId, OtherRelayId}, content \in BusContents}

BusFrames ==
  { BusFrame(FALSE, "", 0, FALSE, NoEvent),
    BusFrame(TRUE, "OK", 4, FALSE, NoEvent),
    BusFrame(TRUE, "EVENT", 2, FALSE, NoEvent),
    BusFrame(TRUE, "EVENT", 3, FALSE, NoEvent),
    BusFrame(TRUE, "EVENT", 3, TRUE,
             MkEvent(KIND_TX_RESPONSE, <<>>,
                     Content(TRUE, TxidTable[1], HexTable[1], FALSE, ""))) }
  \cup {BusFrame(TRUE, "EVENT", 3, TRUE, e) : e \in BusEvents}

\* IsRemoteBroadcast as it would be without the check of the event's kind.
IsRemoteBroadcastAnyKind(frame) ==
  /\ frame.parses
  /\ frame.len >= 3
  /\ frame.head = "EVENT"
  /\ frame.valid

\* handle_strfry_message: is the frame handed to handle_remote_transaction?
IsRemoteBroadcast(frame) ==
  /\ frame.parses
  /\ frame.len >= 3
  /\ frame.head = "EVENT"
  /\ frame.valid
  /\ frame.event.kind = KIND_TX_BROADCAST

\* SelfOrigin as it would be if only the first tag were compared.
SelfOriginFirstTag(event) ==
  /\ event.tags # <<>>
  /\ event.tags[1].variant = "Generic"
  /\ event.tags[1].kind = "relay_id"
  /\ event.tags[1].values # <<>>
  /\ event.tags[1].values[1] = RelayId

\* handle_remote_transaction: the self-origin check over the event's tags.
SelfOrigin(event) ==
  \E i \in 1..Len(event.tags) :
    /\ event.tags[i].variant = "Generic"
    /\ event.tags[i].kind = "relay_id"
    /\ event.tags[i].values # <<>>
    /\ event.tags[i].values[1] = RelayId

\* HasHexAndTxid as it would be if the claimed txid had to be the txid of
\* the transaction the hex holds.
HasHexAndTxidMatching(event) ==
  /\ event.content.json
  /\ Deserializes(event.content.hex)
  /\ event.content.txid = ComputeTxid(event.content.hex)

\* handle_remote_transaction: content is JSON with a string hex and txid.
HasHexAndTxid(event) ==
  /\ event.content.json
  /\ event.content.hex # Absent
  /\ event.content.txid # Absent

\* handle_remote_transaction goes on to insert and validate.
RemoteAccepted(event) == ~SelfOrigin(event) /\ HasHexAndTxid(event)

\* RemoteInsert as it would be if the insert were left out.
RemoteInsertSkipped(txid) == remote_transactions

\* handle_remote_transaction: remote_txs.insert(txid), under the write lock.
RemoteInsert(txid) == remote_transactions \cup {txid}

\* UplinkAfterAttempt as it would be if connect_to_strfry passed an error of
\* try_connect_to_strfry on with `?`.
UplinkAfterAttemptPropagates(result) ==
  IF result = "err" THEN "exited" ELSE "sleep"

\* connect_to_strfry: where the supervisor goes when try_connect_to_strfry
\* returns `result` (Ok after a closed connection, Err otherwise).
UplinkAfterAttempt(result) == "sleep"

\* A frame written to the bus socket: the subscription or an event.
EventFrame(event) == [type |-> "EVENT", event |-> event]

\* Subscription as it would be without the floor of the connect time.
SubscriptionFromEpoch(relay_id, timestamp) ==
  [type |-> "REQ", sub_id |-> "tx_relay_" \o relay_id,
   kinds |-> <<KIND_TX_BROADCAST>>, t |-> <<"bitcoin", "transaction">>,
   since |-> 0]

\* try_connect_to_strfry: the REQ frame of the subscription.
Subscription(relay_id, timestamp) ==
  [type |-> "REQ", sub_id |-> "tx_relay_" \o relay_id,
   kinds |-> <<KIND_TX_BROADCAST>>, t |-> <<"bitcoin", "transaction">>,
   since |-> timestamp]

\* A second of wall-clock time passes.
ClockTick ==
  /\ now < MaxTime
  /\ now' = now + 1
  /\ UNCHANGED <<nodeVars, monVars, upVars, clVars, libVars,
                 remote_transactions, outbox, enqueued, conf, cache, chan>>

\* Url::parse and connect_async; on success the timestamp is read.
UplinkConnect ==
  /\ up_pc = "connect"
  /\ \/ up_pc' = "subscribe" /\ up_since' = now
     \/ up_pc' = UplinkAfterAttempt("err") /\ UNCHANGED up_since
  /\ UNCHANGED <<up_event, up_calls, up_result, up_ret, up_remote0, bus_in,
                 bus_written, up_wire, nodeVars, monVars, clVars, remote_transactions,
                 outbox, enqueued, env, libVars, cache, chan>>

\* The REQ subscription is sent, or its send fails.
UplinkSubscribe ==
  /\ up_pc = "subscribe"
  /\ \/ /\ up_pc' = "select"
        /\ up_wire' = Append(up_wire, Subscription(RelayId, up_since))
     \/ /\ up_pc' = UplinkAfterAttempt("err")
        /\ UNCHANGED up_wire
  /\ UNCHANGED <<up_event, up_calls, up_result, up_ret, up_remote0, bus_in,
                 bus_written, up_since, nodeVars, monVars, clVars, remote_transactions,
                 outbox, enqueued, env, libVars, cache, chan>>

\* The socket yields Close, an error or the end of the stream.
UplinkSocketEnd ==
  /\ up_pc = "select"
  /\ up_pc' = UplinkAfterAttempt("ok")
  /\ up_wire' = <<>>
  /\ UNCHANGED <<up_event, up_calls, up_result, up_ret, up_remote0, bus_in,
                 bus_written, up_since, nodeVars, monVars, clVars, remote_transactions,
                 outbox, enqueued, env, libVars, cache, chan>>

\* handle_strfry_message returns an error: the text is not JSON, the third
\* element of an EVENT array is not an event, or the content of a
\* TX_BROADCAST event that is not this relay's own is not JSON.
BusMessageFails(frame) ==
  \/ ~frame.parses
  \/ frame.len >= 3 /\ frame.head = "EVENT" /\ ~frame.valid
  \/ /\ IsRemoteBroadcast(frame)
     /\ ~SelfOrigin(frame.event)
     /\ ~frame.event.content.json

\* RemoteSubmitReturn as it would be if a node error other than "already
\* known" were passed on with `?`.
RemoteSubmitReturnPropagates(result) ==
  IF result = "error" THEN "Err" ELSE "Ok"

\* handle_remote_transaction: what it returns after submit_to_bitcoin_node
\* returned `result`; an error of the node is at most logged.
RemoteSubmitReturn(result) == "Ok"

\* The socket yields a text frame: handle_strfry_message and, for a
\* TX_BROADCAST event, handle_remote_transaction up to its insert.
UplinkRecv(frame) ==
  /\ up_pc = "select"
  /\ bus_in < MaxBusIn
  /\ bus_in' = bus_in + 1
  /\ up_calls' = <<>>
  /\ up_result' = ""
  /\ up_remote0' = remote_transactions
  /\ IF IsRemoteBroadcast(frame)
     THEN /\ up_event' = frame.event
          /\ IF RemoteAccepted(frame.event)
             THEN /\ remote_transactions' =
                       RemoteInsert(frame.event.content.txid)
                  /\ up_pc' = "validate"
                  /\ up_ret' = ""
             ELSE /\ up_ret' = IF BusMessageFails(frame) THEN "Err" ELSE "Ok"
                  /\ UNCHANGED <<remote_transactions, up_pc>>
     ELSE /\ up_event' = NoEvent
          /\ up_ret' = IF BusMessageFails(frame) THEN "Err" ELSE "Ok"
          /\ UNCHANGED <<remote_transactions, up_pc>>
  /\ UNCHANGED <<bus_written, up_since, up_wire, nodeVars, monVars, clVars,
                 outbox, enqueued, env, libVars, cache, chan>>

\* handle_remote_transaction: validator.validate(tx_hex) returned.
UplinkValidate ==
  /\ up_pc = "validate"
  /\ \E probe \in ProbeChoices(up_event.content.hex) :
       /\ up_calls' = IF probe = "none" THEN up_calls
                      ELSE Append(up_calls, "testmempoolaccept")
       /\ cache' = CacheAfterValidate(up_event.content.hex, probe)
       /\ up_result' = ValidateResult(up_event.content.hex, probe)
       /\ up_pc' = IF ValidateResult(up_event.content.hex, probe) = "Ok"
                   THEN "submit" ELSE "select"
       /\ up_ret' = IF ValidateResult(up_event.content.hex, probe) = "Ok"
                    THEN "" ELSE "Ok"
  /\ UNCHANGED <<up_event, up_remote0, bus_in, bus_written, up_since, up_wire,
                 nodeVars, monVars, clVars, remote_transactions, outbox,
                 enqueued, env, libVars, chan>>

\* handle_remote_transaction: submit_to_bitcoin_node(tx_hex) returned.
UplinkSubmit ==
  /\ up_pc = "submit"
  /\ \E result \in SubmitResults(up_event.content.hex) :
       /\ mempool' = MempoolAfterSubmit(up_event.content.hex, result)
       /\ up_ret' = RemoteSubmitReturn(result)
  /\ up_calls' = Append(up_calls, "sendrawtransaction")
  /\ up_pc' = "select"
  /\ UNCHANGED <<arrivals, up_event, up_result, up_remote0, bus_in,
                 bus_written, up_since, up_wire, monVars, clVars, remote_transactions, outbox,
                 enqueued, env, libVars, cache, chan>>

\* The outbox yields an event: it is written to the socket, or the write
\* fails and the connection is left.
UplinkSend ==
  /\ up_pc = "select"
  /\ outbox # <<>>
  /\ outbox' = Tail(outbox)
  /\ \/ /\ bus_written' = Append(bus_written, Head(outbox))
        /\ up_wire' = Append(up_wire, EventFrame(Head(outbox)))
        /\ UNCHANGED up_pc
     \/ /\ up_pc' = UplinkAfterAttempt("ok")
        /\ up_wire' = <<>>
        /\ UNCHANGED bus_written
  /\ UNCHANGED <<up_event, up_calls, up_result, up_ret, up_remote0, bus_in,
                 up_since, nodeVars, monVars, clVars, remote_transactions, enqueued,
                 env, libVars, cache, chan>>

\* The 5 second sleep of connect_to_strfry returns.
UplinkWake ==
  /\ up_pc = "sleep"
  /\ up_pc' = "connect"
  /\ UNCHANGED <<up_event, up_calls, up_result, up_ret, up_remote0, bus_in,
                 bus_written, up_since, up_wire, nodeVars, monVars, clVars, remote_transactions,
                 outbox, enqueued, env, libVars, cache, chan>>

(***************************************************************************)
(* The client tasks: handle_connection with its outbound task,             *)
(* handle_nostr_message, handle_event, handle_submit_tx, send_tx_response. *)
(***************************************************************************)
\* The messages a client socket can yield.  type is "text", "close", "end"
\* (end of stream), "error" (a WebSocket read error) or "other" (ping,
\* binary); for a text frame, `parses`, `head`, `len` and `valid` are as for
\* bus frames and `event` is the second element of the array.
ClientMsg(type, parses, head, len, valid, event) ==
  [type |-> type, parses |-> parses, head |-> head, len |-> len,
   valid |-> valid, event |-> event]

SubmitContents == {"", NotHex, ShortHex, GarbageHex} \cup TxHexes

SubmitEvent(hex) ==
  MkEvent(KIND_SUBMIT_TX, <<>>, Content(FALSE, Absent, hex, FALSE, ""))

ClientMsgs ==
  { ClientMsg("close", FALSE, "", 0, FALSE, NoEvent),
    ClientMsg("end", FALSE, "", 0, FALSE, NoEvent),
    ClientMsg("error", FALSE, "", 0, FALSE, NoEvent),
    ClientMsg("other", FALSE, "", 0, FALSE, NoEvent),
    ClientMsg("text", FALSE, "", 0, FALSE, NoEvent),
    ClientMsg("text", TRUE, "REQ", 3, FALSE, NoEvent),
    ClientMsg("text", TRUE, "EVENT", 2, FALSE, NoEvent),
    ClientMsg("text", TRUE, "EVENT", 2, TRUE,
              MkEvent(KIND_REQUEST_TX, <<>>,
                      Content(FALSE, Absent, Absent, FALSE, ""))),
    ClientMsg("text", TRUE, "EVENT", 2, TRUE,
              MkEvent(KIND_TX_BROADCAST, <<>>,
                      Content(FALSE, Absent, Absent, FALSE, ""))) }
  \cup {ClientMsg("text", TRUE, "EVENT", 2, TRUE, SubmitEvent(hex)) :
          hex \in SubmitContents}

\* IsSubmit as it would be if handle_event sent every kind to
\* handle_submit_tx.
IsSubmitAnyKind(msg) ==
  /\ msg.type = "text"
  /\ msg.parses
  /\ msg.len >= 2
  /\ msg.head = "EVENT"
  /\ msg.valid

\* handle_nostr_message and handle_event: is the frame a SUBMIT_TX event?
IsSubmit(msg) ==
  /\ msg.type = "text"
  /\ msg.parses
  /\ msg.len >= 2
  /\ msg.head = "EVENT"
  /\ msg.valid
  /\ msg.event.kind = KIND_SUBMIT_TX

\* handle_nostr_message returns an error before any handler is reached: the
\* text is not JSON, or the payload of an EVENT frame is not a valid event.
MessageFails(msg) ==
  /\ msg.type = "text"
  /\ \/ ~msg.parses
     \/ msg.len >= 2 /\ msg.head = "EVENT" /\ ~msg.valid

\* handle_connection: how the read loop treats a message that is not text.
\* "teardown" leaves the loop for the abort and the removal, "return" leaves
\* handle_connection at once (the `?` on the message), "continue" reads on.
ClientOnMessage(type) ==
  IF type \in {"close", "end"} THEN "teardown"
  ELSE IF type = "error" THEN "return"
  ELSE "continue"

NoReply == [success |-> FALSE, message |-> "", txid |-> ""]
Reply(success, message, txid) ==
  [success |-> success, message |-> message, txid |-> txid]

\* send_tx_response: the TX_RESPONSE event.
ResponseEvent(reply) ==
  MkEvent(KIND_TX_RESPONSE, <<>>,
          Content(TRUE, reply.txid, Absent, reply.success, reply.message))

\* ResponseTargets as it would be if the reply were fanned out like a
\* broadcast.
ResponseTargetsAll(client_id) == clients

\* send_tx_response: the clients whose channel gets the reply for client_id.
ResponseTargets(client_id) == clients \cap {client_id}

\* accept_async succeeded: the channel is created, the entry inserted and
\* the outbound task spawned.
ClientConnect(c) ==
  /\ in_pc[c] = "none"
  /\ ~out_alive[c]
  /\ connects < MaxConnects
  /\ connects' = connects + 1
  /\ clients' = clients \cup {c}
  /\ chan' = [chan EXCEPT ![c] = NewChannel]
  /\ out_alive' = [out_alive EXCEPT ![c] = TRUE]
  /\ in_pc' = [in_pc EXCEPT ![c] = "read"]
  /\ cl_hex' = [cl_hex EXCEPT ![c] = Absent]
  /\ cl_reply' = [cl_reply EXCEPT ![c] = NoReply]
  /\ cl_val' = [cl_val EXCEPT ![c] = ""]
  /\ cl_node' = [cl_node EXCEPT ![c] = "none"]
  /\ cl_submits' = [cl_submits EXCEPT ![c] = 0]
  /\ cl_bad' = [cl_bad EXCEPT ![c] = 0]
  /\ cl_replies' = [cl_replies EXCEPT ![c] = 0]
  /\ UNCHANGED <<frames, nodeVars, monVars, upVars, remote_transactions,
                 outbox, enqueued, env, libVars, cache>>

\* ws_receiver.next() returned a message.
ClientRead(c, msg) ==
  /\ in_pc[c] = "read"
  /\ frames < MaxFrames
  /\ frames' = frames + 1
  /\ IF msg.type = "text"
     THEN /\ IF IsSubmit(msg)
             THEN /\ in_pc' = [in_pc EXCEPT ![c] = "validate"]
                  /\ cl_hex' = [cl_hex EXCEPT ![c] = msg.event.content.hex]
                  /\ cl_submits' = [cl_submits EXCEPT ![c] = @ + 1]
                  /\ UNCHANGED cl_bad
             ELSE /\ cl_bad' = [cl_bad EXCEPT ![c] =
                                  IF MessageFails(msg) THEN @ + 1 ELSE @]
                  /\ UNCHANGED <<in_pc, cl_hex, cl_submits>>
          /\ UNCHANGED <<clients, chan, out_alive>>
     ELSE /\ CASE ClientOnMessage(msg.type) = "teardown" ->
                    /\ in_pc' = [in_pc EXCEPT ![c] = "none"]
                    /\ out_alive' = [out_alive EXCEPT ![c] = FALSE]
                    /\ clients' = clients \ {c}
                    /\ chan' = [chan EXCEPT ![c] = ClosedChannel]
               [] ClientOnMessage(msg.type) = "return" ->
                    /\ in_pc' = [in_pc EXCEPT ![c] = "none"]
                    /\ UNCHANGED <<out_alive, clients, chan>>
               [] OTHER -> UNCHANGED <<in_pc, out_alive, clients, chan>>
          /\ UNCHANGED <<cl_hex, cl_submits, cl_bad>>
  /\ UNCHANGED <<cl_reply, cl_val, cl_node, cl_replies, connects, nodeVars,
                 monVars, upVars, remote_transactions, outbox, enqueued, env,
                 libVars, cache>>

\* ValidationReply as it would be if every validation error, the benign
\* RecentlyProcessed included, were answered with its own text.
ValidationReplyVerbatim(result) == Reply(FALSE, result, "")

\* handle_submit_tx: the reply for a validation error.
ValidationReply(result) ==
  IF result = "RecentlyProcessed"
  THEN Reply(FALSE, "Transaction recently processed", "")
  ELSE Reply(FALSE, result, "")

\* handle_submit_tx: validator.validate(tx_hex) returned; on Ok the hex is
\* decoded and deserialized.
ClientValidate(c) ==
  /\ in_pc[c] = "validate"
  /\ \E probe \in ProbeChoices(cl_hex[c]) :
       LET result == ValidateResult(cl_hex[c], probe) IN
       /\ cache' = CacheAfterValidate(cl_hex[c], probe)
       /\ cl_val' = [cl_val EXCEPT ![c] = result]
       /\ IF result # "Ok"
          THEN /\ cl_reply' = [cl_reply EXCEPT ![c] = ValidationReply(result)]
               /\ in_pc' = [in_pc EXCEPT ![c] = "reply"]
          ELSE IF ~HexDecodes(cl_hex[c])
          THEN /\ cl_reply' = [cl_reply EXCEPT ![c] =
                                 Reply(FALSE, "Invalid hex encoding", "")]
               /\ in_pc' = [in_pc EXCEPT ![c] = "reply"]
          ELSE IF ~Deserializes(cl_hex[c])
          THEN /\ cl_reply' = [cl_reply EXCEPT ![c] =
                                 Reply(FALSE, "Invalid transaction format", "")]
               /\ in_pc' = [in_pc EXCEPT ![c] = "reply"]
          ELSE /\ in_pc' = [in_pc EXCEPT ![c] = "submit"]
               /\ UNCHANGED cl_reply
  /\ UNCHANGED <<clients, chan, out_alive, cl_hex, cl_node, cl_submits,
                 cl_bad, cl_replies, frames, connects, nodeVars, monVars,
                 upVars, remote_transactions, outbox, enqueued, env, libVars>>

\* SubmitReply as it would be if the client path classified the node's
\* "already in mempool" error as success, as the remote path does.
SubmitReplyIdempotent(result, txid) ==
  IF result \in {"ok", "already"}
  THEN Reply(TRUE, "Transaction accepted", txid)
  ELSE Reply(FALSE, result, txid)

\* SubmitReply as it would be if the txid were left out of a failure reply.
SubmitReplyNoTxid(result, txid) ==
  IF result = "ok"
  THEN Reply(TRUE, "Transaction accepted", txid)
  ELSE Reply(FALSE, result, "")

\* handle_submit_tx: the reply for what submit_to_bitcoin_node returned.
SubmitReply(result, txid) ==
  IF result = "ok"
  THEN Reply(TRUE, "Transaction accepted", txid)
  ELSE Reply(FALSE, result, txid)

\* RemoteAfterSubmit as it would be if handle_submit_tx marked the txid of
\* an accepted submission the way handle_remote_transaction marks its own.
RemoteAfterSubmitMarked(result, txid) ==
  IF result = "ok" THEN remote_transactions \cup {txid}
  ELSE remote_transactions

\* handle_submit_tx: remote_transactions when it returns; the handler never
\* takes the lock.
RemoteAfterSubmit(result, txid) == remote_transactions

\* handle_submit_tx: submit_to_bitcoin_node(tx_hex) returned.
ClientSubmit(c) ==
  /\ in_pc[c] = "submit"
  /\ \E result \in SubmitResults(cl_hex[c]) :
       /\ mempool' = MempoolAfterSubmit(cl_hex[c], result)
       /\ cl_node' = [cl_node EXCEPT ![c] = result]
       /\ cl_reply' = [cl_reply EXCEPT ![c] =
                         SubmitReply(result, ComputeTxid(cl_hex[c]))]
       /\ remote_transactions' =
            RemoteAfterSubmit(result, ComputeTxid(cl_hex[c]))
  /\ in_pc' = [in_pc EXCEPT ![c] = "reply"]
  /\ UNCHANGED <<arrivals, clients, chan, out_alive, cl_hex, cl_val,
                 cl_submits, cl_bad, cl_replies, frames, connects, monVars,
                 upVars, outbox, enqueued, env, libVars, cache>>

\* send_tx_response, after the clients read lock.
ClientReply(c) ==
  /\ in_pc[c] = "reply"
  /\ chan' = [d \in Clients |->
                IF d \in ResponseTargets(c)
                THEN ChanSend(chan[d], ResponseEvent(cl_reply[c]))
                ELSE chan[d]]
  /\ cl_replies' = [cl_replies EXCEPT ![c] = @ + 1]
  /\ cl_hex' = [cl_hex EXCEPT ![c] = Absent]
  /\ cl_reply' = [cl_reply EXCEPT ![c] = NoReply]
  /\ cl_val' = [cl_val EXCEPT ![c] = ""]
  /\ cl_node' = [cl_node EXCEPT ![c] = "none"]
  /\ in_pc' = [in_pc EXCEPT ![c] = "read"]
  /\ UNCHANGED <<clients, out_alive, cl_submits, cl_bad, frames, connects,
                 nodeVars, monVars, upVars, remote_transactions, outbox,
                 enqueued, env, libVars, cache>>

\* The outbound task: tx_receiver.recv() returned.  A Lagged error ends the
\* `while let Ok` loop; an event is written to the socket, or the write
\* fails and ends the loop.
ClientOutbound(c) ==
  /\ out_alive[c]
  /\ chan[c].q # <<>>
  /\ \/ /\ ~chan[c].lagged
        /\ chan' = [chan EXCEPT ![c] = ChanRecv(@, Received(@.q))]
        /\ UNCHANGED out_alive
     \/ /\ chan' = [chan EXCEPT ![c] = ClosedChannel]
        /\ out_alive' = [out_alive EXCEPT ![c] = FALSE]
  /\ UNCHANGED <<clients, in_pc, cl_hex, cl_reply, cl_val, cl_node,
                 cl_submits, cl_bad, cl_replies, frames, connects, nodeVars,
                 monVars, upVars, remote_transactions, outbox, enqueued, env,
                 libVars, cache>>

(***************************************************************************)
(* The library facade: BitcoinNostrRelay (src/src/lib.rs) with its         *)
(* optional Nostr client and its validator.                                *)
(***************************************************************************)
\* The strings validate_transaction is called with.
ValidateInputs == SubmitContents \cup {Blank}

\* ValidateTransaction as it would be if the facade ran the precheck itself
\* whatever the config says.
ValidateTransactionChecked(hex, probe) ==
  IF Precheck(hex) # "Ok" THEN Precheck(hex) ELSE ValidateResult(hex, probe)

\* ValidateTransaction as it would be if the facade let pass what does not
\* parse as a transaction.
ValidateTransactionLenient(hex, probe) ==
  IF Deserializes(hex) THEN ValidateResult(hex, probe) ELSE "Ok"

\* ValidateTransaction as it would be if an entry of any age counted.
ValidateTransactionStale(hex, probe) ==
  IF /\ vcfg.enable_validation
     /\ Deserializes(hex)
     /\ \E i \in 1..Len(cache) : cache[i].txid = ComputeTxid(hex)
  THEN "RecentlyProcessed"
  ELSE ValidateResult(hex, probe)

\* validate_transaction: self.validator.validate(tx_hex).
ValidateTransaction(hex, probe) == ValidateResult(hex, probe)

LibValidate(hex) ==
  /\ \E probe \in ProbeChoices(hex) :
       /\ val_result' = ValidateTransaction(hex, probe)
       /\ val_probed' = (probe # "none")
       /\ cache' = CacheAfterValidate(hex, probe)
  /\ val_input' = hex
  /\ val_cache0' = cache
  /\ UNCHANGED <<nostr_client, lib_phase, lib_result, lib_sends, nodeVars,
                 monVars, upVars, clVars, remote_transactions, outbox,
                 enqueued, env, chan>>

\* NostrAfterStart as it would be if start cloned the client.
NostrAfterStartKept == nostr_client

\* start: self.nostr_client.take() leaves None behind.
NostrAfterStart == "None"

\* connect_nostr: the client is attached.
LibConnectNostr ==
  /\ nostr_client' = "Some"
  /\ lib_phase' = "connected"
  /\ UNCHANGED <<lib_result, lib_sends, val_input, val_result, val_probed,
                 val_cache0, nodeVars, monVars, upVars, clVars,
                 remote_transactions, outbox, enqueued, env, cache, chan>>

\* start: the client is taken for RelayServer::new; the step stands for a
\* call of start up to its return.
LibStart ==
  /\ nostr_client' = NostrAfterStart
  /\ lib_phase' = "started"
  /\ UNCHANGED <<lib_result, lib_sends, val_input, val_result, val_probed,
                 val_cache0, nodeVars, monVars, upVars, clVars,
                 remote_transactions, outbox, enqueued, env, cache, chan>>

\* broadcast_transaction: send_tx_event on the attached client, or the
\* Disconnected error.
LibBroadcast ==
  /\ IF nostr_client = "Some"
     THEN /\ lib_sends < MaxSends
          /\ lib_sends' = lib_sends + 1
          /\ lib_result' \in {"Ok", "SendError"}
     ELSE /\ lib_result' = "Disconnected"
          /\ UNCHANGED lib_sends
  /\ UNCHANGED <<nostr_client, lib_phase, val_input, val_result, val_probed,
                 val_cache0, nodeVars, monVars, upVars, clVars,
                 remote_transactions, outbox, enqueued, env, cache, chan>>

(***************************************************************************)
(* The server after RelayServer::new and run.                              *)
(***************************************************************************)
InitConf(cfg, size) ==
  /\ mempool = {}
  /\ arrivals = 0
  /\ remote_transactions = {}
  /\ known_txids = {}
  /\ current_txids = <<>>
  /\ mon_pc = "seed"
  /\ mon_i = 0
  /\ mon_event = NoEvent
  /\ mon_seen = {}
  /\ mon_rpc = "none"
  /\ mon_seeded = {}
  /\ mon_cold = FALSE
  /\ outbox = <<>>
  /\ enqueued = <<>>
  /\ bus_written = <<>>
  /\ up_pc = "connect"
  /\ up_event = NoEvent
  /\ up_calls = <<>>
  /\ up_result = ""
  /\ up_ret = ""
  /\ up_remote0 = {}
  /\ bus_in = 0
  /\ up_since = 0
  /\ up_wire = <<>>
  /\ now = 0
  /\ vcfg = cfg
  /\ buffer_size = size
  /\ cache = <<>>
  /\ clients = {}
  /\ chan = [c \in Clients |-> ClosedChannel]
  /\ out_alive = [c \in Clients |-> FALSE]
  /\ in_pc = [c \in Clients |-> "none"]
  /\ cl_hex = [c \in Clients |-> Absent]
  /\ cl_reply = [c \in Clients |-> NoReply]
  /\ cl_val = [c \in Clients |-> ""]
  /\ cl_node = [c \in Clients |-> "none"]
  /\ cl_submits = [c \in Clients |-> 0]
  /\ cl_bad = [c \in Clients |-> 0]
  /\ cl_replies = [c \in Clients |-> 0]
  /\ frames = 0
  /\ connects = 0
  /\ nostr_client = "None"
  /\ lib_phase = "new"
  /\ lib_result = ""
  /\ lib_sends = 0
  /\ val_input = Absent
  /\ val_result = ""
  /\ val_probed = FALSE
  /\ val_cache0 = <<>>

\* The server of a relay with validation config cfg.
InitWith(cfg) == InitConf(cfg, BufferSize)

\* The server of a relay built with the default validation config.
Init == InitWith(DefaultValidationConfig)

NodeNext == \E txid \in TxIds : NodeArrive(txid) \/ NodeDrop(txid)

MonitorNext ==
  MonitorSeed \/ MonitorPoll \/ MonitorExamine \/ MonitorFetch
    \/ MonitorFanout \/ MonitorWake

UplinkNext ==
  UplinkConnect \/ UplinkSubscribe \/ UplinkSocketEnd
    \/ (\E frame \in BusFrames : UplinkRecv(frame))
    \/ UplinkValidate \/ UplinkSubmit \/ UplinkSend \/ UplinkWake

ClientNext ==
  \E c \in Clients :
    \/ ClientConnect(c)
    \/ \E msg \in ClientMsgs : ClientRead(c, msg)
    \/ ClientValidate(c)
    \/ ClientSubmit(c)
    \/ ClientReply(c)
    \/ ClientOutbound(c)

Next ==
  NodeNext \/ MonitorNext \/ UplinkNext \/ ClientNext \/ CacheExpire
    \/ ClockTick

Spec == Init /\ [][Next]_vars

(***************************************************************************)
(* Specifications.  Spec is the whole server.  The others schedule a part  *)
(* of it: SpecBus the Monitor and the Uplink's inbound leg with a client   *)
(* that only listens, SpecUplink the Monitor and the Uplink's connection   *)
(* and outbound leg, SpecClients the Monitor and the client tasks,         *)
(* SpecRemote the Monitor, the Uplink's inbound leg and one client,        *)
(* SpecSubmit the client tasks and SpecLibrary the library facade, the     *)
(* last two under every validation config, SpecFifo the Monitor and the    *)
(* client tasks with a channel buffer of two events, SpecSubscribe what    *)
(* SpecUplink schedules together with the wall clock, SpecQuiet the        *)
(* Monitor with one client that submits and one that sends other frames,   *)
(* SpecFetch the node and the Monitor with failures of the raw fetch, and  *)
(* SpecLocks the tasks that wait for a lock or hold one.                   *)
(***************************************************************************)
UplinkInbound ==
  UplinkConnect \/ UplinkSubscribe \/ UplinkSocketEnd
    \/ (\E frame \in BusFrames : UplinkRecv(frame))
    \/ UplinkValidate \/ UplinkSubmit \/ UplinkWake

UplinkOutbound ==
  UplinkConnect \/ UplinkSubscribe \/ UplinkSocketEnd \/ UplinkSend
    \/ UplinkWake

\* One client that connects and only listens.
ClientListen == ClientConnect(1) \/ ClientOutbound(1)

NextBus ==
  NodeNext \/ MonitorNext \/ UplinkInbound \/ ClientListen \/ CacheExpire

NextUplink == NodeNext \/ MonitorNext \/ UplinkOutbound

NextClients == MonitorNext \/ ClientNext

SpecBus == Init /\ [][NextBus]_vars

SpecUplink == Init /\ [][NextUplink]_vars

\* The timer of the reconnect sleep fires.
FairSpecUplink == SpecUplink /\ WF_vars(UplinkWake)

SpecClients == Init /\ [][NextClients]_vars

\* The Monitor, the Uplink's inbound leg and every step of one client,
\* teardown included.
ClientOne ==
  \/ ClientConnect(1)
  \/ \E msg \in ClientMsgs : ClientRead(1, msg)
  \/ ClientValidate(1)
  \/ ClientSubmit(1)
  \/ ClientReply(1)
  \/ ClientOutbound(1)

NextRemote == MonitorNext \/ UplinkInbound \/ ClientOne

SpecRemote == Init /\ [][NextRemote]_vars

\* The library facade with the node and the validator's clock, under every
\* validation config.
LibraryNext ==
  \/ \E hex \in ValidateInputs : LibValidate(hex)
  \/ LibConnectNostr
  \/ LibStart
  \/ LibBroadcast

NextLibrary == LibraryNext \/ NodeNext \/ CacheExpire

SpecLibrary ==
  (\E cfg \in ValidationConfigs : InitWith(cfg)) /\ [][NextLibrary]_vars

\* The Monitor and the client tasks with room for more than one event in
\* a client's channel.
WideBuffer == BufferSize + 1

SpecFifo ==
  InitConf(DefaultValidationConfig, WideBuffer) /\ [][NextClients]_vars

\* The Monitor and the Uplink's connection and outbound leg under a wall
\* clock that advances.
NextSubscribe == NextUplink \/ ClockTick

SpecSubscribe == Init /\ [][NextSubscribe]_vars

\* The Monitor and two clients, of which the first sends only frames that
\* no handler acts on and the second only submissions.
QuietMsgs ==
  {msg \in ClientMsgs :
     /\ msg.type = "text"
     /\ msg.parses
     /\ \/ msg.head = "REQ"
        \/ msg.head = "EVENT" /\ msg.valid /\ msg.event.kind # KIND_SUBMIT_TX}

SubmitMsgs == {msg \in ClientMsgs : IsSubmit(msg)}

NextQuiet ==
  \/ MonitorNext
  \/ \E c \in Clients : ClientConnect(c) \/ ClientOutbound(c)
  \/ \E msg \in QuietMsgs : ClientRead(1, msg)
  \/ \E msg \in SubmitMsgs : ClientRead(2, msg)
  \/ ClientValidate(2)
  \/ ClientSubmit(2)
  \/ ClientReply(2)

SpecQuiet == Init /\ [][NextQuiet]_vars

\* The node and the Monitor, where a publication fails only in the raw
\* fetch or in the deserialization of its bytes.
RawFailures == {"rpc", "deserialize"}

NextFetch ==
  NodeNext \/ MonitorSeed \/ MonitorPoll \/ MonitorExamine
    \/ MonitorFetchOf(RawFailures) \/ MonitorFanout \/ MonitorWake

SpecFetch == Init /\ [][NextFetch]_vars

\* The locks of the server.  Between two steps only the Uplink holds any:
\* the outbox receiver from the subscription to the end of the connection,
\* and with it the write guard of remote_transactions while its handler
\* validates and submits.  Every other guard is taken and dropped within one
\* step: the Monitor's read guards of remote_transactions and of clients,
\* the clients guards of a connection's insert, removal and reply.
MonitorTask == <<"Monitor", 0>>
UplinkTask == <<"Uplink", 0>>
ClientTask(c) == <<"Client", c>>
Tasks == {MonitorTask, UplinkTask} \cup {ClientTask(c) : c \in Clients}

ReceiverLocked == up_pc \in {"select", "validate", "submit"}

Holds(task) ==
  IF task = UplinkTask
  THEN (IF ReceiverLocked THEN {"strfry_receiver"} ELSE {})
         \cup (IF RemoteWriteLocked THEN {"remote_transactions"} ELSE {})
  ELSE {}

\* The locks the next step of the task asks for.
Wants(task) ==
  CASE task = MonitorTask ->
         IF mon_pc = "examine" /\ current_txids[mon_i] \notin known_txids
         THEN {"remote_transactions"}
         ELSE IF mon_pc = "fanout" THEN {"clients"} ELSE {}
    [] task = UplinkTask ->
         IF up_pc = "subscribe" THEN {"strfry_receiver"}
         ELSE IF up_pc = "select" THEN {"remote_transactions"} ELSE {}
    [] OTHER ->
         IF in_pc[task[2]] \in {"none", "read", "reply"} THEN {"clients"}
         ELSE {}

\* The Monitor, the Uplink's inbound leg and a client that listens, with
\* transactions arriving in the mempool; every RPC of the Uplink's handler
\* returns and a task that can take its lock is scheduled.
NextLocks ==
  \/ \E txid \in TxIds : NodeArrive(txid)
  \/ MonitorNext
  \/ UplinkInbound
  \/ ClientListen

SpecLocks == Init /\ [][NextLocks]_vars

FairSpecLocks ==
  /\ SpecLocks
  /\ WF_vars(UplinkValidate)
  /\ WF_vars(UplinkSubmit)
  /\ WF_vars(MonitorExamine)

\* The client tasks alone, under every validation config.
NextSubmit == ClientNext \/ CacheExpire

SpecSubmit ==
  (\E cfg \in ValidationConfigs : InitWith(cfg)) /\ [][NextSubmit]_vars

(***************************************************************************)
(* Properties.                                                             *)
(***************************************************************************)
Last(s) == s[Len(s)]

IsBroadcastOf(event, txid) ==
  event.kind = KIND_TX_BROADCAST /\ event.content.txid = txid

\* This step sends a TX_BROADCAST of txid on the outbox.
EnqueuesBroadcast(txid) ==
  /\ Len(enqueued') > Len(enqueued)
  /\ IsBroadcastOf(Last(enqueued'), txid)

\* This step sends an event on the channel of client c.
ChanGains(c) ==
  /\ chan'[c] # chan[c]
  /\ chan'[c].q # <<>>
  /\ Len(chan'[c].q) >= Len(chan[c].q)

\* This step publishes a TX_BROADCAST of txid, to the bus or to a client.
Publishes(txid) ==
  \/ EnqueuesBroadcast(txid)
  \/ \E c \in Clients : ChanGains(c) /\ IsBroadcastOf(Last(chan'[c].q), txid)

\* The event carries a relay_id tag whose first value is config.relay_id.
CarriesOwnRelayId(event) ==
  \E i \in DOMAIN event.tags :
    /\ event.tags[i].kind = "relay_id"
    /\ Len(event.tags[i].values) >= 1
    /\ event.tags[i].values[1] = RelayId

\* C1: while the event handed to handle_remote_transaction carries this
\* relay's relay_id, no node call (probe or sendrawtransaction) has been made
\* for it, the handler is not validating or submitting, and
\* remote_transactions is as it was when the event arrived.
C1_SelfLoopSuppressed ==
  (up_event # NoEvent /\ CarriesOwnRelayId(up_event)) =>
    /\ up_calls = <<>>
    /\ up_pc \notin {"validate", "submit"}
    /\ remote_transactions = up_remote0

\* A self-tagged event, otherwise acceptable and naming a txid that is new
\* to remote_transactions, has been handled.
C1_Witness ==
  /\ up_event # NoEvent
  /\ CarriesOwnRelayId(up_event)
  /\ Len(up_event.tags) > 1
  /\ HasHexAndTxid(up_event)
  /\ Deserializes(up_event.content.hex)
  /\ up_event.content.txid \notin remote_transactions
  /\ up_pc = "select"

\* C2: a txid that a Monitor poll has met while it was in
\* remote_transactions is not published by any step from then on, neither on
\* the outbox nor on a client channel.
C2_RemoteNeverPublished ==
  [][\A txid \in mon_seen : ~Publishes(txid)]_vars

\* A poll has met a txid of remote_transactions that is in the mempool and
\* was not known, has gone on, and a client is listening.
C2_Witness ==
  \E txid \in mon_seen :
    /\ txid \in mempool
    /\ txid \in known_txids
    /\ mon_pc = "sleep"
    /\ clients # {}
    /\ \A i \in 1..Len(enqueued) : ~IsBroadcastOf(enqueued[i], txid)

\* The event is what a peer relay publishes for one transaction: its tags
\* with the peer's relay_id, its content with the transaction's txid and hex.
FromPeer(event) ==
  /\ event # NoEvent
  /\ ~CarriesOwnRelayId(event)
  /\ \E i \in TxIndex : event.content = PeerContent(i)

\* The Monitor read remote_transactions for txid before, found it absent and
\* is publishing it.
MonitorPublishing(txid) ==
  /\ mon_pc \in {"fetch", "fanout"}
  /\ current_txids[mon_i] = txid

C4_ResponseBeforeBroadcast ==
  [][\A c \in Clients :
       (in_pc[c] = "reply" /\ cl_reply[c].success) =>
         ~(ChanGains(c) /\ IsBroadcastOf(Last(chan'[c].q), cl_reply[c].txid))
    ]_vars

\* C5: every event sent on the outbox is either still queued or was written
\* to the bus, in the order of sending.
C5_NoOutboxEventLost == enqueued = bus_written \o outbox

\* C6: the Uplink supervisor never leaves its loop, every end of a
\* connection attempt leads to the sleep, and the sleep is always followed by
\* a new attempt.
C6_UplinkNeverExits ==
  /\ [](up_pc # "exited")
  /\ [][(up_pc \in {"connect", "subscribe", "select"}
           /\ up_pc' \notin {"connect", "subscribe", "select"})
          => up_pc' = "sleep"]_vars
  /\ [](up_pc = "sleep" => <>(up_pc = "connect"))

\* The supervisor sleeps after a connection that had written an event; more
\* events wait in the outbox.
C6_Witness ==
  /\ up_pc = "sleep"
  /\ bus_written # <<>>
  /\ outbox # <<>>

\* C7: the Monitor never leaves its loop.
C7_MonitorNeverTerminates == mon_pc # "exited"

\* C8: a client-id is in clients exactly when its outbound task is alive.
C8_ClientsIffOutboundAlive ==
  \A c \in Clients : c \in clients <=> out_alive[c]

\* C9: a connection that has ended has no entry in clients and no running
\* outbound task.
C9_EndedConnectionRemoved ==
  \A c \in Clients : in_pc[c] = "none" => (c \notin clients /\ ~out_alive[c])

\* C10: every SUBMIT_TX read on a connection has had exactly one
\* send_tx_response once its handler has returned and none before; a
\* TX_RESPONSE is sent on a channel only by the reply step of that channel's
\* own client, and it is that client's reply; no TX_RESPONSE is on the outbox.
C10_OneResponseToOriginator ==
  /\ [](\A c \in Clients :
          cl_replies[c] = IF in_pc[c] \in {"validate", "submit", "reply"}
                          THEN cl_submits[c] - 1 ELSE cl_submits[c])
  /\ [](\A i \in 1..Len(enqueued) : enqueued[i].kind # KIND_TX_RESPONSE)
  /\ [][\A d \in Clients :
          (ChanGains(d) /\ Last(chan'[d].q).kind = KIND_TX_RESPONSE) =>
            /\ in_pc[d] = "reply"
            /\ in_pc'[d] = "read"
            /\ Last(chan'[d].q) = ResponseEvent(cl_reply[d])]_vars

\* One client's submission was accepted and answered on its channel while
\* another client was connected, whose channel holds no TX_RESPONSE.
C10_Witness ==
  \E c, d \in Clients :
    /\ c # d
    /\ d \in clients
    /\ out_alive[d]
    /\ cl_submits[c] = 1
    /\ cl_replies[c] = 1
    /\ chan[c].q # <<>>
    /\ Last(chan[c].q).kind = KIND_TX_RESPONSE
    /\ Last(chan[c].q).content.success
    /\ \A i \in 1..Len(chan[d].q) : chan[d].q[i].kind # KIND_TX_RESPONSE

C12_RemoteGrowsMonotonically ==
  [][remote_transactions \subseteq remote_transactions']_vars

\* A txid is in remote_transactions after the Monitor has met it there, a
\* client has been answered and its connection has been torn down.
C12_Witness ==
  /\ mon_seen # {}
  /\ mon_seen \subseteq remote_transactions
  /\ mon_pc = "sleep"
  /\ connects > 0
  /\ cl_replies[1] > 0
  /\ in_pc[1] = "none"
  /\ 1 \notin clients

\* C13: every event this relay has produced, be it on the outbox or on a
\* client's channel, carries a relay_id tag whose value is config.relay_id.
C13_ProducedEventsCarryRelayId ==
  /\ \A i \in 1..Len(enqueued) : CarriesOwnRelayId(enqueued[i])
  /\ \A c \in Clients :
       \A i \in 1..Len(chan[c].q) : CarriesOwnRelayId(chan[c].q[i])

\* C14: a client whose channel has overflowed keeps its outbound task for
\* as long as its connection is not torn down.
C14_OverflowKeepsOutboundAlive ==
  [][\A c \in Clients :
       (out_alive[c] /\ chan[c].lagged /\ in_pc'[c] # "none")
         => out_alive'[c]]_vars

\* C15: with enable_validation off, the last validate_transaction returned
\* Ok whatever its input was, made no node call and left the cache as it was.
C15_DisabledValidationReturnsOk ==
  (~vcfg.enable_validation /\ val_input # Absent) =>
    /\ val_result = "Ok"
    /\ ~val_probed
    /\ cache = val_cache0

\* Validation is off and a string that is not hex has been validated.
C15_Witness ==
  /\ ~vcfg.enable_validation
  /\ val_input = NotHex
  /\ val_result = "Ok"

\* C16: with validation and the precheck on, empty or whitespace-only input
\* gives EmptyTransaction or InvalidStructure, input that is not hex gives
\* InvalidHex, hex of fewer than 60 bytes gives InvalidSize or
\* InvalidStructure, and longer hex that is not a transaction gives
\* InvalidStructure.
C16_PrecheckClassifies ==
  (vcfg.enable_validation /\ vcfg.enable_precheck) =>
    /\ val_input \in {"", Blank} =>
         val_result \in {"EmptyTransaction", "InvalidStructure"}
    /\ val_input = NotHex => val_result = "InvalidHex"
    /\ val_input = ShortHex =>
         val_result \in {"InvalidSize", "InvalidStructure"}
    /\ val_input = GarbageHex => val_result = "InvalidStructure"

\* The precheck has rejected hex that is long enough and is not a
\* transaction, after the node had taken a transaction into its mempool.
C16_Witness ==
  /\ vcfg.enable_validation
  /\ vcfg.enable_precheck
  /\ val_input = GarbageHex
  /\ val_result = "InvalidStructure"
  /\ mempool # {}

\* C17: when the last validate_transaction returned RecentlyProcessed, the
\* cache it was called with held an entry for the input's txid whose age
\* was below cache_ttl.
C17_RecentlyProcessedIsFresh ==
  val_result = "RecentlyProcessed" =>
    /\ Deserializes(val_input)
    /\ \E i \in 1..Len(val_cache0) :
         /\ val_cache0[i].txid = ComputeTxid(val_input)
         /\ val_cache0[i].fresh

\* A transaction the probe rejected has been validated again within the TTL
\* and was answered from the cache.
C17_Witness ==
  /\ val_result = "RecentlyProcessed"
  /\ ~val_probed
  /\ val_cache0 # <<>>

C18_ErrorsAnsweredAndTaskContinues ==
  /\ [](\A c \in Clients :
          in_pc[c] = "read" => cl_replies[c] = cl_submits[c] + cl_bad[c])
  /\ [][\A c \in Clients :
          cl_bad'[c] > cl_bad[c] =>
            /\ in_pc'[c] = "read"
            /\ clients' = clients
            /\ out_alive' = out_alive]_vars

\* C19: the clients map never holds more than max_client_connections
\* entries.
C19_ClientsWithinMaximum == Cardinality(clients) <= MaxClientConnections

\* C21: whenever handle_remote_transaction is at, or has made, its call of
\* the validator or of sendrawtransaction for an event, the event's txid is
\* in remote_transactions; so it is at every step in which the handler's
\* submission changes the mempool.
C21_InsertBeforeSubmission ==
  /\ []((up_pc \in {"validate", "submit"} \/ up_calls # <<>>
           \/ up_result # "") =>
          up_event.content.txid \in remote_transactions)
  /\ [][(up_pc = "submit" /\ up_pc' = "select") =>
          /\ up_event.content.txid \in remote_transactions
          /\ up_event.content.txid \in remote_transactions']_vars

\* The handler's submission put the transaction into the mempool, nothing
\* else arrived there, and the Monitor is examining the txid, unknown to it,
\* while it is in remote_transactions.
C21_Witness ==
  /\ "sendrawtransaction" \in Range(up_calls)
  /\ arrivals = 0
  /\ mon_pc = "examine"
  /\ current_txids[mon_i] = up_event.content.txid
  /\ up_event.content.txid \notin known_txids
  /\ up_event.content.txid \in remote_transactions

\* C22: every step that completes a successful poll leaves known_txids equal
\* to the set of txids of the list that poll's getrawmempool returned, and
\* known_txids stays so while the Monitor sleeps.
C22_KnownPrunedToMempool ==
  /\ [][(mon_pc # "sleep" /\ mon_pc' = "sleep" /\ mon_rpc' = "ok") =>
          IF mon_pc = "poll"
          THEN mempool = {} /\ known_txids' = {}
          ELSE known_txids' = Range(current_txids)]_vars
  /\ [][mon_pc = "sleep" => known_txids' = known_txids]_vars

\* A transaction the Monitor had published has left the mempool, and a
\* successful poll with another transaction in its list has been completed.
C22_Witness ==
  /\ mon_pc = "sleep"
  /\ mon_rpc = "ok"
  /\ known_txids # {}
  /\ \E i \in 1..Len(enqueued) :
       /\ enqueued[i].content.txid \notin mempool
       /\ enqueued[i].content.txid \notin known_txids

\* C23: while a client's submission that the validator rejected awaits its
\* reply, sendrawtransaction has not been called for it and the reply is
\* success:false with an empty txid, its message "Transaction recently
\* processed" for RecentlyProcessed and the error's text for any other
\* error; the handler never stands at the node call after a rejection.
C23_RejectedSubmissionNotSubmitted ==
  \A c \in Clients :
    (cl_val[c] \notin {"", "Ok"}) =>
      /\ in_pc[c] = "reply"
      /\ cl_node[c] = "none"
      /\ cl_reply[c] =
           Reply(FALSE,
                 IF cl_val[c] = "RecentlyProcessed"
                 THEN "Transaction recently processed" ELSE cl_val[c],
                 "")

\* A transaction the probe had rejected for one submission is submitted
\* again within the TTL and awaits the RecentlyProcessed reply.
C23_Witness ==
  \E c \in Clients :
    /\ in_pc[c] = "reply"
    /\ cl_val[c] = "RecentlyProcessed"
    /\ cl_replies[c] = 1
    /\ Deserializes(cl_hex[c])
    /\ ComputeTxid(cl_hex[c]) \notin mempool

\* C24: while a client's submission awaits its reply, the reply is
\* success:true only when sendrawtransaction returned Ok, and then it carries
\* the transaction's computed txid; after a validation that passed, hex that
\* does not decode gets "Invalid hex encoding" and bytes that do not parse
\* get "Invalid transaction format", both with an empty txid and no node
\* call; a node error gets success:false with the error's text and the
\* computed txid.
C24_SuccessOnlyAfterNodeAccepts ==
  \A c \in Clients :
    in_pc[c] = "reply" =>
      /\ cl_reply[c].success =>
           /\ cl_node[c] = "ok"
           /\ cl_reply[c] =
                Reply(TRUE, "Transaction accepted", ComputeTxid(cl_hex[c]))
      /\ (cl_val[c] = "Ok" /\ ~HexDecodes(cl_hex[c])) =>
           /\ cl_node[c] = "none"
           /\ cl_reply[c] = Reply(FALSE, "Invalid hex encoding", "")
      /\ (cl_val[c] = "Ok" /\ HexDecodes(cl_hex[c])
            /\ ~Deserializes(cl_hex[c])) =>
           /\ cl_node[c] = "none"
           /\ cl_reply[c] = Reply(FALSE, "Invalid transaction format", "")
      /\ cl_node[c] \in {"already", "error"} =>
           cl_reply[c] = Reply(FALSE, cl_node[c], ComputeTxid(cl_hex[c]))
      /\ cl_node[c] = "ok" => cl_reply[c].success

\* With validation off, one client awaits the reply to hex that does not
\* decode while another awaits the reply to a node error for a transaction
\* that parsed.
C24_Witness ==
  \E c, d \in Clients :
    /\ in_pc[c] = "reply"
    /\ cl_val[c] = "Ok"
    /\ cl_hex[c] = NotHex
    /\ in_pc[d] = "reply"
    /\ cl_node[d] = "error"
    /\ cl_reply[d].txid \in TxIds

\* C25: the events queued on a client's channel are in the order of their
\* sending, and every event the outbound task takes from the channel to
\* write it to the socket was sent after the event it took before and before
\* every event that is still queued; so the events written to one client
\* are written in the order in which they were sent on its channel.
C25_PerClientFifo ==
  /\ [](\A c \in Clients :
          \A i \in 1..Len(chan[c].ids) :
            /\ chan[c].ids[i] >= 1
            /\ \A j \in 1..(i - 1) : chan[c].ids[j] < chan[c].ids[i])
  /\ [][\A c \in Clients :
          (chan[c].open /\ chan'[c].open
             /\ Len(chan'[c].q) < Len(chan[c].q)) =>
            \E k \in 1..Len(chan[c].q) :
              /\ chan'[c] = ChanRecv(chan[c], k)
              /\ chan[c].ids[k] >= 1
              /\ \A j \in 1..Len(chan[c].q) :
                   j # k => chan[c].ids[k] < chan[c].ids[j]]_vars

\* A client's outbound task has taken an event while a later one was queued
\* behind it, has taken that one too, and is alive with an empty channel.
C25_Witness ==
  \E c \in Clients :
    /\ out_alive[c]
    /\ chan[c].open
    /\ ~chan[c].lagged
    /\ chan[c].depth >= 1
    /\ chan[c].q = <<>>

\* A validate_transaction call has returned in this step.
Validated ==
  <<val_input, val_result, val_probed, val_cache0>>' #
    <<val_input, val_result, val_probed, val_cache0>>

\* C26: a validation that returns BitcoinCoreRejection has probed the node
\* and leaves a fresh cache entry for the transaction's txid; a validation
\* that returns anything else, Timeout and Ok included, leaves the cache as
\* it was; a validation of a transaction whose txid has a fresh entry
\* returns RecentlyProcessed; and apart from a rejection only the passing of
\* time changes the cache, and it only ages entries.
C26_CacheWrittenOnRejectionOnly ==
  /\ [][(Validated /\ val_result' = "BitcoinCoreRejection") =>
          /\ val_probed'
          /\ cache' = CacheInsert(ComputeTxid(val_input'))
          /\ \E i \in 1..Len(cache') :
               /\ cache'[i].txid = ComputeTxid(val_input')
               /\ cache'[i].fresh]_vars
  /\ [][(Validated /\ val_result' # "BitcoinCoreRejection") =>
          cache' = cache]_vars
  /\ [][(Validated /\ vcfg.enable_validation /\ Deserializes(val_input')
           /\ CacheFresh(ComputeTxid(val_input'))) =>
          val_result' = "RecentlyProcessed" /\ ~val_probed']_vars
  /\ [][cache' # cache =>
          \/ /\ val_result' = "BitcoinCoreRejection"
             /\ val_cache0' = cache
             /\ cache' = CacheInsert(ComputeTxid(val_input'))
          \/ /\ Len(cache') = Len(cache)
             /\ \A i \in 1..Len(cache) :
                  cache'[i].txid = cache[i].txid /\ ~cache'[i].fresh]_vars

\* The probe rejected a transaction, a repeat validation within the TTL was
\* answered RecentlyProcessed, and the cache is as that validation found it.
C26_Witness ==
  /\ val_result = "RecentlyProcessed"
  /\ val_cache0 = cache
  /\ Len(cache) = 1
  /\ cache[1].fresh
  /\ cache[1].txid = ComputeTxid(val_input)
  /\ cache[1].txid \notin mempool

\* The sendrawtransaction calls made for the event in hand.
SendRawCalls == {i \in 1..Len(up_calls) : up_calls[i] = "sendrawtransaction"}

\* C27: for the event handle_remote_transaction has in hand,
\* sendrawtransaction has been called at most once, and only for an event
\* that is not this relay's own, whose content has a string hex and a string
\* txid and whose validation returned Ok; after a validation error or for an
\* event without the two fields the handler is never at the node call; and
\* when the node call returns, whatever its result, the handler returns Ok
\* to the read loop without calling again.
C27_RemoteSubmitOnceNoRetry ==
  /\ [](Cardinality(SendRawCalls) <= 1)
  /\ [](SendRawCalls # {} =>
          /\ up_event # NoEvent
          /\ ~SelfOrigin(up_event)
          /\ HasHexAndTxid(up_event)
          /\ up_result = "Ok"
          /\ up_pc \notin {"validate", "submit"}
          /\ up_ret = "Ok")
  /\ []((up_result \notin {"", "Ok"}
           \/ (up_event # NoEvent /\ ~HasHexAndTxid(up_event))) =>
          /\ SendRawCalls = {}
          /\ up_pc # "submit")
  /\ [][up_pc = "submit" =>
          \/ up_pc' = "submit"
          \/ up_pc' = "select" /\ up_ret' = "Ok"]_vars

\* The node has answered the handler's sendrawtransaction for a peer's
\* transaction with an error (the transaction is not in the mempool), and
\* the handler has returned Ok to the read loop.
C27_Witness ==
  /\ SendRawCalls # {}
  /\ FromPeer(up_event)
  /\ up_event.content.txid \notin mempool
  /\ up_pc = "select"
  /\ up_ret = "Ok"

\* C28: the step in which the getrawmempool call of a poll fails leaves
\* known_txids, the outbox and every client channel as they were and puts
\* the Monitor to sleep; until it wakes for the next poll known_txids stays
\* the same and no TX_BROADCAST is published.
C28_FailedPollSkipsPeriod ==
  /\ [][(mon_pc = "poll" /\ mon_pc' # "poll" /\ mon_rpc' = "err") =>
          /\ mon_pc' = "sleep"
          /\ known_txids' = known_txids
          /\ outbox' = outbox
          /\ enqueued' = enqueued
          /\ chan' = chan]_vars
  /\ [][(mon_pc = "sleep" /\ mon_rpc = "err") =>
          /\ known_txids' = known_txids
          /\ mon_pc' \in {"sleep", "poll"}
          /\ \A txid \in TxIds : ~Publishes(txid)]_vars

\* A poll has failed while the Monitor knew one transaction and the mempool
\* held another, with a client connected.
C28_Witness ==
  /\ mon_pc = "sleep"
  /\ mon_rpc = "err"
  /\ known_txids # {}
  /\ mempool \ known_txids # {}
  /\ clients # {}

\* Some step so far has published a TX_BROADCAST of txid on the outbox.
WasPublished(txid) ==
  \E i \in 1..Len(enqueued) : IsBroadcastOf(enqueued[i], txid)

\* C29: no step publishes a transaction that was in the mempool at a
\* successful seed call and has stayed there; a failed seed call leaves
\* known_txids empty until the first successful poll, that poll is carried
\* through, and when it completes every txid of its list that is not in
\* remote_transactions has been published.
C29_SeedSuppressesOrFirstPollPublishes ==
  /\ [][\A txid \in mon_seeded : ~Publishes(txid)]_vars
  /\ [](mon_seeded \subseteq mempool)
  /\ []((mon_cold /\ mon_pc \in {"poll", "sleep"}) => known_txids = {})
  /\ [](mon_cold => mon_pc # "exited")
  /\ [][(mon_cold /\ ~mon_cold') =>
          \A txid \in Range(current_txids) :
            txid \notin remote_transactions' => WasPublished(txid)']_vars

\* The queue of channel ch after a send of event: the event is appended, and
\* the oldest event gives way when the buffer is full.
QueueAfterSend(ch, event) ==
  IF Len(ch.q) >= buffer_size THEN Append(Tail(ch.q), event)
  ELSE Append(ch.q, event)

\* C30: the outbox gains an event only in a publication step of the Monitor,
\* which is for a txid of the current mempool list that was not known, and
\* it gains one event, the TX_BROADCAST of that txid; the fan-out that
\* follows sends that same event on the channel of every client that is in
\* clients when it runs, and on no other channel.
C30_PublicationReachesBusAndClients ==
  /\ [][enqueued' # enqueued =>
          /\ mon_pc = "fetch"
          /\ mon_pc' = "fanout"
          /\ current_txids[mon_i] \notin known_txids
          /\ mon_event' =
               BroadcastEvent(current_txids[mon_i],
                              RawHex(current_txids[mon_i]))
          /\ enqueued' = Append(enqueued, mon_event')
          /\ outbox' = Append(outbox, mon_event')]_vars
  /\ [](mon_pc = "fanout" =>
          /\ enqueued # <<>>
          /\ mon_event = Last(enqueued)
          /\ mon_event.kind = KIND_TX_BROADCAST)
  /\ [][mon_pc = "fanout" =>
          \/ mon_pc' = "fanout" /\ mon_event' = mon_event
          \/ \A c \in Clients :
               IF c \in clients /\ chan[c].open
               THEN chan'[c].q = QueueAfterSend(chan[c], mon_event)
               ELSE chan'[c] = chan[c]]_vars

\* One publication is on the outbox and is the newest event on the channels
\* of two connected clients.
C30_Witness ==
  \E c, d \in clients :
    /\ c # d
    /\ enqueued # <<>>
    /\ chan[c].q # <<>>
    /\ chan[d].q # <<>>
    /\ Last(chan[c].q) = Last(enqueued)
    /\ Last(chan[d].q) = Last(enqueued)
    /\ Last(enqueued) \in Range(outbox)

\* C31: the frames sent on a bus connection start with the REQ subscription
\* (sub_id tx_relay_<relay_id>, kind 20012, since the timestamp read when
\* the connection was made, which is the clock at that step), and every
\* frame after it is an EVENT; no frame is on a connection that has not
\* subscribed; an event leaves the outbox only on a connection whose REQ was
\* sent; and a failed REQ send ends the attempt with the outbox as it was.
C31_SubscriptionFirst ==
  /\ [](up_wire # <<>> =>
          /\ up_wire[1] =
               [type |-> "REQ", sub_id |-> "tx_relay_1",
                kinds |-> <<20012>>, t |-> <<"bitcoin", "transaction">>,
                since |-> up_since]
          /\ \A i \in 2..Len(up_wire) : up_wire[i].type = "EVENT")
  /\ [](up_pc \in {"connect", "subscribe"} => up_wire = <<>>)
  /\ [][(up_pc = "connect" /\ up_pc' = "subscribe") => up_since' = now]_vars
  /\ [][Len(outbox') < Len(outbox) =>
          /\ up_pc = "select"
          /\ up_wire # <<>>
          /\ up_wire[1].type = "REQ"]_vars
  /\ [][(up_pc = "subscribe" /\ up_pc' \notin {"subscribe", "select"}) =>
          /\ up_pc' = "sleep"
          /\ outbox' = outbox
          /\ bus_written' = bus_written]_vars

\* On a reconnection made after the clock had advanced, the REQ and then an
\* outbox event have been sent; an earlier connection had sent an event too.
C31_Witness ==
  /\ up_pc = "select"
  /\ Len(up_wire) >= 2
  /\ up_since > 0
  /\ Len(bus_written) > Len(up_wire) - 1

\* C32: a step in which the Uplink reads a text frame hands the frame's
\* event to handle_remote_transaction exactly when the frame is a JSON array
\* of at least three elements whose first is "EVENT" and whose third is an
\* event of kind 20012; for every other frame the step makes no node call,
\* leaves remote_transactions, the mempool and the cache as they were and
\* stays in the read loop; and while no event is in hand no node call has
\* been made and the handler is not at one.
C32_OnlyBroadcastEventsHandled ==
  /\ [][\A frame \in BusFrames :
          UplinkRecv(frame) =>
            LET handed == /\ frame.parses
                          /\ frame.len >= 3
                          /\ frame.head = "EVENT"
                          /\ frame.valid
                          /\ frame.event.kind = 20012
            IN  /\ (up_event' # NoEvent) <=> handed
                /\ handed => up_event' = frame.event
                /\ ~handed =>
                     /\ up_calls' = <<>>
                     /\ remote_transactions' = remote_transactions
                     /\ mempool' = mempool
                     /\ cache' = cache
                     /\ up_pc' = "select"]_vars
  /\ [](up_event = NoEvent =>
          /\ up_calls = <<>>
          /\ up_pc \notin {"validate", "submit"})

\* The bus has delivered a well-formed frame that is not a TX_BROADCAST
\* event while a transaction was in the mempool: nothing is in hand,
\* remote_transactions is empty and the connection is open.
C32_Witness ==
  /\ bus_in = 1
  /\ up_event = NoEvent
  /\ up_ret = "Ok"
  /\ up_pc = "select"
  /\ remote_transactions = {}
  /\ mempool # {}

\* C33: a step in which a client's read loop reads a text frame that is a
\* REQ, or an EVENT whose event is of a kind other than 20010 (REQUEST_TX,
\* 20013, included), raises no error and changes nothing: no reply or other
\* event is sent on any channel or on the outbox, no handler is entered, the
\* mempool and the cache are as they were, and clients, the outbound tasks
\* and remote_transactions are unchanged.
C33_OtherFramesAreNoOps ==
  [][\A c \in Clients : \A msg \in ClientMsgs :
       (/\ ClientRead(c, msg)
        /\ msg.type = "text"
        /\ msg.parses
        /\ \/ msg.head = "REQ"
           \/ msg.head = "EVENT" /\ msg.valid /\ msg.event.kind # 20010) =>
         /\ cl_bad' = cl_bad
         /\ cl_replies' = cl_replies
         /\ cl_submits' = cl_submits
         /\ in_pc' = in_pc
         /\ chan' = chan
         /\ outbox' = outbox
         /\ mempool' = mempool
         /\ cache' = cache
         /\ clients' = clients
         /\ out_alive' = out_alive
         /\ remote_transactions' = remote_transactions]_vars

\* The second client's submission has been accepted and answered, the first
\* client has sent a frame of the other kinds in the meantime: it is still
\* connected and reading, with no reply and no error counted for it.
C33_Witness ==
  /\ frames = 2
  /\ cl_submits[2] = 1
  /\ cl_replies[2] = 1
  /\ mempool # {}
  /\ 1 \in clients
  /\ out_alive[1]
  /\ in_pc[1] = "read"
  /\ cl_replies[1] = 0
  /\ cl_bad[1] = 0
  /\ \A i \in 1..Len(chan[1].q) : chan[1].q[i].kind # KIND_TX_RESPONSE

\* C34: remote_transactions is empty before any frame has been read; a step
\* that reads a frame adds the txid named in the content when the frame is a
\* TX_BROADCAST event that is not this relay's own and whose content has a
\* string hex and a string txid, whatever the hex is, and leaves the set as
\* it was otherwise; no other step changes the set.  The txid is in the set
\* once validation has failed or the node has been called, and the Monitor
\* does not go on to fetch or publish a txid it examines while it is in the
\* set.
C34_RemoteHoldsClaimedTxids ==
  /\ [](bus_in = 0 => remote_transactions = {})
  /\ [][\A frame \in BusFrames :
          UplinkRecv(frame) =>
            remote_transactions' =
              IF /\ frame.parses /\ frame.len >= 3 /\ frame.head = "EVENT"
                 /\ frame.valid /\ frame.event.kind = 20012
                 /\ ~CarriesOwnRelayId(frame.event)
                 /\ frame.event.content.json
                 /\ frame.event.content.hex # Absent
                 /\ frame.event.content.txid # Absent
              THEN remote_transactions \cup {frame.event.content.txid}
              ELSE remote_transactions]_vars
  /\ [][remote_transactions' # remote_transactions =>
          \E frame \in BusFrames : UplinkRecv(frame)]_vars
  /\ []((up_result \notin {"", "Ok"} \/ up_calls # <<>>) =>
          up_event.content.txid \in remote_transactions)
  /\ [][(mon_pc = "examine"
           /\ current_txids[mon_i] \in remote_transactions) =>
          /\ mon_pc' # "fetch"
          /\ ~Publishes(current_txids[mon_i])]_vars

\* A peer's event named a txid and carried a string that is not hex: its
\* validation failed, the txid is in remote_transactions, and a poll has
\* passed over the transaction of that txid in the mempool without
\* publishing it.
C34_Witness ==
  /\ up_event # NoEvent
  /\ up_event.content.hex = NotHex
  /\ up_result = "InvalidHex"
  /\ up_calls = <<>>
  /\ up_event.content.txid \in mempool
  /\ up_event.content.txid \in mon_seen
  /\ up_event.content.txid \in known_txids
  /\ mon_pc = "sleep"
  /\ enqueued = <<>>

\* C35: the step in which the publication of a txid fails without ending the
\* Monitor leaves the txid in known_txids and publishes nothing; the Monitor
\* never fetches or publishes a txid of known_txids; and a txid leaves
\* known_txids only when a successful poll whose list does not hold it
\* completes.  So a txid whose raw fetch or deserialization failed is passed
\* over by every later poll whose list holds it.
C35_FailedFetchStillKnown ==
  /\ [][(mon_pc = "fetch" /\ mon_pc' \notin {"fetch", "fanout", "exited"}) =>
          /\ current_txids[mon_i] \in known_txids'
          /\ enqueued' = enqueued
          /\ outbox' = outbox
          /\ chan' = chan]_vars
  /\ [](mon_pc \in {"fetch", "fanout"} =>
          current_txids[mon_i] \notin known_txids)
  /\ [][\A txid \in known_txids : ~Publishes(txid)]_vars
  /\ [][\A txid \in known_txids :
          txid \notin known_txids' =>
            /\ mon_pc # "sleep"
            /\ mon_pc' = "sleep"
            /\ mon_rpc' = "ok"
            /\ txid \notin Range(current_txids)]_vars

\* A transaction that was not in the mempool at the seed call has had its
\* raw fetch or its deserialization fail in an earlier poll and has stayed
\* in the mempool (no transaction arrived twice): a later poll, whose list
\* also holds a new transaction, meets it first, known and never published.
C35_Witness ==
  /\ mon_pc = "examine"
  /\ mon_i = 1
  /\ Len(current_txids) = 2
  /\ Cardinality(mempool) = arrivals
  /\ current_txids[1] \in mempool
  /\ current_txids[1] \in known_txids
  /\ current_txids[1] \notin mon_seeded
  /\ ~WasPublished(current_txids[1])
  /\ current_txids[2] \notin known_txids

\* C36: no step publishes a txid of known_txids, and a txid leaves
\* known_txids only when a successful poll whose list does not hold it
\* completes; a TX_BROADCAST is sent on the outbox only for the txid the
\* Monitor is fetching, which is not known, and the fan-out that follows
\* makes it known.  A txid that was published before and that a poll finds new
\* again, and not in remote_transactions, is fetched and published again.
C36_OncePerResidency ==
  /\ [][\A txid \in known_txids : ~Publishes(txid)]_vars
  /\ [][\A txid \in known_txids :
          txid \notin known_txids' =>
            /\ mon_pc # "sleep"
            /\ mon_pc' = "sleep"
            /\ mon_rpc' = "ok"
            /\ txid \notin Range(current_txids)]_vars
  /\ [][\A txid \in TxIds :
          EnqueuesBroadcast(txid) =>
            /\ mon_pc = "fetch"
            /\ mon_pc' = "fanout"
            /\ current_txids[mon_i] = txid
            /\ txid \notin known_txids]_vars
  /\ [][(mon_pc = "fanout" /\ mon_pc' # "fanout") =>
          current_txids[mon_i] \in known_txids']_vars
  /\ [][(/\ mon_pc = "examine"
         /\ (mon_pc' # "examine" \/ mon_i' # mon_i)
         /\ WasPublished(current_txids[mon_i])
         /\ current_txids[mon_i] \notin known_txids
         /\ current_txids[mon_i] \notin remote_transactions) =>
          mon_pc' = "fetch"]_vars
  /\ [][(/\ mon_pc = "fetch"
         /\ mon_pc' # "fetch"
         /\ WasPublished(current_txids[mon_i])) =>
          EnqueuesBroadcast(current_txids[mon_i])]_vars

IngestedFromBus ==
  /\ up_event # NoEvent
  /\ SendRawCalls # {}
  /\ Deserializes(up_event.content.hex)
  /\ arrivals = 0

\* C38: the steps of handle_remote_transaction send nothing on a client
\* channel or on the outbox; a txid the Monitor examines while it is in
\* remote_transactions is neither fetched nor published; and no step sends
\* a client the TX_BROADCAST of a transaction that reached the mempool
\* through the handler's submission.
C38_IngestedNeverSentToClients ==
  /\ [][(bus_in' # bus_in
           \/ (up_pc \in {"validate", "submit"} /\ up_pc' # up_pc)) =>
          /\ chan' = chan
          /\ outbox' = outbox]_vars
  /\ [][(mon_pc = "examine"
           /\ current_txids[mon_i] \in remote_transactions) =>
          /\ mon_pc' \notin {"fetch", "fanout"}
          /\ ~Publishes(current_txids[mon_i])]_vars
  /\ [][IngestedFromBus =>
          \A c \in Clients :
            ~(/\ ChanGains(c)
              /\ IsBroadcastOf(Last(chan'[c].q),
                               ComputeTxid(up_event.content.hex)))]_vars

\* The Monitor's next step asks for the read guard of remote_transactions
\* for txid while the Uplink's handler holds the write guard.
MonitorWaitsFor(txid) ==
  /\ mon_pc = "examine"
  /\ current_txids[mon_i] = txid
  /\ txid \notin known_txids
  /\ RemoteWriteLocked

\* C39 as the claim states it: every task, the Uplink included, holds at
\* most one of the locks on clients, remote_transactions and the outbox
\* receiver at a time.
C39_EachTaskHoldsOneLock ==
  \A task \in Tasks : Cardinality(Holds(task)) <= 1

\* C39, amended: the Monitor and the client tasks hold no lock between two
\* steps and ask for at most one in a step, never the outbox receiver; the
\* Uplink takes the outbox receiver first and the write guard of
\* remote_transactions while it holds the receiver, and asks for no lock
\* while it holds the write guard; so a task that holds a lock another task
\* asks for is itself waiting for no lock, and there is no cycle of waiting.
\* When every RPC of the handler returns, the Monitor's request for the read
\* guard is granted: the txid it waited for is examined, and is then known
\* or being fetched.
C39_NoLockDeadlock ==
  /\ [](\A task \in Tasks \ {UplinkTask} :
          /\ Holds(task) = {}
          /\ Cardinality(Wants(task)) <= 1
          /\ "strfry_receiver" \notin Wants(task))
  /\ []("remote_transactions" \in Holds(UplinkTask) =>
          /\ "strfry_receiver" \in Holds(UplinkTask)
          /\ Wants(UplinkTask) = {})
  /\ [](\A a, b \in Tasks :
          (a # b /\ Wants(a) \cap Holds(b) # {}) => Wants(b) = {})
  /\ \A txid \in TxIds :
       MonitorWaitsFor(txid) ~> (txid \in known_txids \/ mon_pc = "fetch")

\* The Uplink's handler holds the write guard of remote_transactions, and
\* with it the outbox receiver, while it waits for the node; the Monitor's
\* next step asks for the read guard, and a client is connected.
C39_Witness ==
  /\ up_pc = "submit"
  /\ Holds(UplinkTask) = {"strfry_receiver", "remote_transactions"}
  /\ \E txid \in TxIds : MonitorWaitsFor(txid)
  /\ clients # {}
====
